---- MODULE Spec2Model ----
(***************************************************************************)
(* A model of wavelink/ext/spotify/__init__.py: the SpotifyClient bearer   *)
(* token cache and _search coroutine, the SpotifyAsyncIterator, and        *)
(* SpotifyTrack.fulfill with the player's seed window.                     *)
(*                                                                         *)
(* Coroutines are modelled as frames with a program counter; a frame only  *)
(* gives up control at an HTTP await (session.post / session.get) or at    *)
(* the await of the host library's search, so every action runs the code   *)
(* between two such awaits atomically, as the asyncio event loop does.     *)
(***************************************************************************)
EXTENDS Integers, Sequences, FiniteSets, TLC

(* ------------------------------ bounds --------------------------------- *)
\* the clock runs over 0..MaxTime
MaxTime == 3
\* the grant server declares lifetimes ExpiryMargin-1 .. ExpiryMargin+MaxSlack
MaxSlack == 2
\* the grant server hands out the tokens 1..MaxTokens
MaxTokens == 2
\* a playlist has 1..MaxPages pages of 0..MaxPageLen items each
MaxPages == 2
MaxPageLen == 2
\* a stream's limit is None or 0..MaxLimit
MaxLimit == 3
\* at most MaxCalls fulfill calls populate
MaxCalls == 6
\* the recommendations server fills the auto queue up to MaxQueue tracks
MaxQueue == 1
\* ... and up to MaxBacklog tracks where the queue is looked at
MaxBacklog == 3

(* ------------------------- program constants --------------------------- *)
\* Python's None (an absent token, a null track slot)
None == 0
\* limit=None: the stream has no limit
NoLimit == -1
\* the only status the code accepts: resp.status != 200 raises
HTTP_OK == 200
\* the safety margin taken off the server-declared lifetime
ExpiryMargin == 10
\* the capacity of Player._track_seeds
SeedCap == 5

(* --------------------------- input domains ----------------------------- *)
Tasks == {1, 2}
\* the catalog ids, as text
Ids == {<<"a", "7">>}
Statuses == {HTTP_OK, 204, 404}
Tokens == 1..MaxTokens
TrackIds == {1, 2}
Lifetimes == (ExpiryMargin - 1)..(ExpiryMargin + MaxSlack)
\* SpotifySearchType
SearchTypes == {"track", "album", "playlist", "unusable"}
\* the entity names URLREGEX recognises
UrlEntities == {"album", "playlist", "track", "artist"}

VARIABLES
  now,           \* time.time()
  bearer_token,  \* SpotifyClient._bearer_token (None: never obtained)
  expiry,        \* SpotifyClient._expiry
  catalog,       \* the server's playlist/album: a sequence of pages of payloads
  search,        \* the frames of SpotifyClient._search, one per task
  granted,       \* history: when the last successful grant arrived, and its lifetime
  stream,        \* the SpotifyAsyncIterator
  player,        \* the Player: autoplay, its node's client, _track_seeds, auto_queue
  fulfill,       \* the frames of SpotifyTrack.fulfill, one per task
  populated,     \* history: the source ids of the fulfill calls that populated
  decoded        \* decode_url: the string given to it and what it returned

vars == <<now, bearer_token, expiry, catalog, search, granted, stream,
          player, fulfill, populated, decoded>>

\* what the client, its searches and the stream leave alone
playback == <<player, fulfill, populated, decoded>>

(* ------------------------------- text ---------------------------------- *)
\* a string is the sequence of its characters
\* [a-zA-Z0-9]
AlphaNum ==
    {"a", "b", "c", "d", "e", "f", "g", "h", "i", "j", "k", "l", "m",
     "n", "o", "p", "q", "r", "s", "t", "u", "v", "w", "x", "y", "z",
     "A", "B", "C", "D", "E", "F", "G", "H", "I", "J", "K", "L", "M",
     "N", "O", "P", "Q", "R", "S", "T", "U", "V", "W", "X", "Y", "Z",
     "0", "1", "2", "3", "4", "5", "6", "7", "8", "9"}

\* . in a pattern: any character
AnyChar == "any"

\* the names of the type group of URLREGEX, spelt out
Spelling ==
  [album |-> <<"a", "l", "b", "u", "m">>, playlist |-> <<"p", "l", "a", "y", "l", "i", "s", "t">>,
   track |-> <<"t", "r", "a", "c", "k">>, artist |-> <<"a", "r", "t", "i", "s", "t">>]

\* the string s goes on at position i with the pattern pat
StartsWith(s, i, pat) ==
  /\ i >= 1
  /\ i + Len(pat) - 1 <= Len(s)
  /\ \A k \in 1..Len(pat) : pat[k] = AnyChar \/ s[i + k - 1] = pat[k]

\* the position after pat matched at i; 0 when it does not match
Lit(s, i, pat) == IF StartsWith(s, i, pat) THEN i + Len(pat) ELSE 0

\* pat?: the position after pat if it matches at i, else i
Opt(s, i, pat) == IF StartsWith(s, i, pat) THEN i + Len(pat) ELSE i

RECURSIVE IdEnd(_, _)
\* [a-zA-Z0-9]+ is greedy: the position after the run of AlphaNum from i
IdEnd(s, i) == IF i <= Len(s) /\ s[i] \in AlphaNum THEN IdEnd(s, i + 1) ELSE i

\* no match, and the None of decode_url
NoMatch == [type |-> "none", id |-> <<>>]

\* URLREGEX from (spotify) on, at position i and with the alternative sep of
\* (.com/|:): the groups type and id.  The optional groups after the id take
\* nothing from it and never fail the match.
GroupsFrom(s, i, sep) ==
  LET a == Lit(s, Lit(s, i, <<"s", "p", "o", "t", "i", "f", "y">>), sep)
      names == {n \in DOMAIN Spelling : StartsWith(s, a, Spelling[n])}
  IN IF names = {} THEN NoMatch
     ELSE LET n == CHOOSE m \in names : TRUE
              c == a + Len(Spelling[n])
          IN IF c <= Len(s) /\ s[c] \in {"/", ":"} /\ IdEnd(s, c + 1) > c + 1
             THEN [type |-> n, id |-> SubSeq(s, c + 1, IdEnd(s, c + 1) - 1)]
             ELSE NoMatch

\* URLREGEX.match(s), line 51: anchored at the start of s only; the first
\* alternative that matches wins, (https?://open.)? taken before it is skipped
URLREGEX_match(s) ==
  LET g == Lit(s, Opt(s, Lit(s, 1, <<"h", "t", "t", "p">>), <<"s">>), <<":", "/", "/", "o", "p", "e", "n", AnyChar>>)
      starts == IF g # 0 THEN <<g, 1>> ELSE <<1>>
      tries == [k \in 1..(2 * Len(starts)) |->
                  GroupsFrom(s, starts[(k + 1) \div 2],
                             IF k % 2 = 1 THEN <<AnyChar, "c", "o", "m", "/">> ELSE <<":">>)]
      hits == {k \in DOMAIN tries : tries[k] # NoMatch}
  IN IF hits = {} THEN NoMatch
     ELSE tries[CHOOSE k \in hits : \A j \in hits : k <= j]

\* mutant: the name of the type group is returned as it is
decode_url_ByName(url) == URLREGEX_match(url)

\* decode_url, lines 61-100: SpotifySearchType[match['type']], unusable on KeyError
decode_url(url) ==
  LET match == URLREGEX_match(url)
  IN IF match = NoMatch THEN NoMatch
     ELSE [type |-> IF match.type \in SearchTypes THEN match.type ELSE "unusable",
           id |-> match.id]

\* 'spotify:<entity>:<id>'
Uri(entity, id) == <<"s", "p", "o", "t", "i", "f", "y", ":">> \o Spelling[entity] \o <<":">> \o id

\* 'https://open.spotify.com/<entity>/<id>?si=<id>'
Link(entity, id) ==
  <<"h", "t", "t", "p", "s", ":", "/", "/", "o", "p", "e", "n", ".", "s", "p", "o", "t", "i", "f", "y", ".", "c", "o", "m", "/">> \o Spelling[entity] \o <<"/">> \o id \o <<"?", "s", "i", "=">> \o id

\* a query is a raw id or a catalog URI naming an entity and an id
Queries == Ids \cup {Uri(e, i) : e \in UrlEntities, i \in Ids}

\* the parts of no string, and decode_url not called
NoParts ==
  [scheme |-> <<>>, host |-> <<>>, sep |-> <<>>, name |-> <<>>,
   slash |-> <<>>, id |-> <<>>, tail |-> <<>>]

NoDecode == [parts |-> NoParts, url |-> <<>>, done |-> FALSE, out |-> NoMatch]

(* ---------------------------- the catalog ------------------------------ *)
RECURSIVE SeqsUpTo(_, _)
\* the sequences over S of length 0..n
SeqsUpTo(S, n) ==
  IF n = 0 THEN {<<>>}
  ELSE LET shorter == SeqsUpTo(S, n - 1)
       IN shorter \cup {Append(s, x) : s \in {u \in shorter : Len(u) = n - 1}, x \in S}

\* the payload in slot i of page p: a distinct positive number, or None for
\* a null track slot
Payload(p, i, present) == IF present THEN p * (MaxPageLen + 1) + i ELSE None

\* a page, from which of its slots hold a track
PageOf(p, slots) == [i \in 1..Len(slots) |-> Payload(p, i, slots[i])]

Catalogs ==
  {[p \in 1..Len(shape) |-> PageOf(p, shape[p])] :
     shape \in {s \in SeqsUpTo(SeqsUpTo(BOOLEAN, MaxPageLen), MaxPages) : Len(s) >= 1}}

\* the playlists of one page of one slot
OnePage == {c \in Catalogs : Len(c) = 1 /\ Len(c[1]) = 1}

\* the continuation cursor the server returns with page p (None: no more)
NextCursor(p) == IF p < Len(catalog) THEN p + 1 ELSE None

(* ----------------------------- the client ------------------------------ *)
NoUrl == [entity |-> "none", id |-> <<>>, page |-> None]
NoQuery == <<>>

IdleSearch ==
  [pc |-> "idle", query |-> NoQuery, type |-> "track", iterator |-> FALSE,
   url |-> NoUrl, items |-> <<>>, result |-> "none", err |-> "none",
   status |-> None, at |-> "none",
   \* history of the call, for the properties
   grants |-> 0, gets |-> 0, tokSent |-> None, served |-> <<>>]

\* regex_result = URLREGEX.match(query), line 430
RegexResult(q) == URLREGEX_match(q)

\* _search, lines 430-438: the entity endpoint
BaseUrl(q, ty) ==
  IF RegexResult(q) # NoMatch
  THEN [entity |-> RegexResult(q).type, id |-> RegexResult(q).id, page |-> 1]
  ELSE [entity |-> ty, id |-> q, page |-> 1]

\* mutant: the token is still taken as valid at the instant of its expiry
NeedsGrant_Late(tok, exp, t) == tok = None \/ t > exp

\* _search, line 427: not self._bearer_token or time.time() >= self._expiry
NeedsGrant(tok, exp, t) == tok = None \/ t >= exp

\* _get_bearer_token, line 419
GrantExpiry(t, n) == t + (n - ExpiryMargin)

\* session.get(url, headers=self.bearer_headers), line 439
SendEntityGet(f, tok) ==
  [f EXCEPT !.pc = "get", !.url = BaseUrl(f.query, f.type), !.gets = @ + 1,
            !.tokSent = tok]

Fail(f, where, err, status) ==
  [f EXCEPT !.pc = "failed", !.at = where, !.err = err, !.status = status]

\* _search is called: the token check and the first request
SearchCall(t, q, ty, it) ==
  /\ search[t].pc = "idle"
  /\ LET f == [IdleSearch EXCEPT !.query = q, !.type = ty, !.iterator = it]
     IN search' = [search EXCEPT ![t] =
          IF NeedsGrant(bearer_token, expiry, now)
          THEN [f EXCEPT !.pc = "grant", !.grants = @ + 1]
          ELSE SendEntityGet(f, bearer_token)]
  /\ UNCHANGED <<now, bearer_token, expiry, catalog, granted, playback>>

\* SpotifyTrack.search, lines 275-282: _search with iterator left False
Search(t, q, ty) == SearchCall(t, q, ty, FALSE) /\ UNCHANGED stream

\* mutant: the token is stored before the status is looked at
GrantResponse_StoreFirst(t, status, tok, n) ==
  /\ search[t].pc = "grant"
  /\ bearer_token' = tok
  /\ expiry' = GrantExpiry(now, n)
  /\ granted' = [at |-> now, life |-> n]
  /\ search' = [search EXCEPT ![t] =
       IF status # HTTP_OK THEN Fail(@, "grant", "RequestError", status)
       ELSE SendEntityGet(@, tok)]
  /\ UNCHANGED <<now, catalog, stream, playback>>

\* _get_bearer_token resumes with the grant response
GrantResponse(t, status, tok, n) ==
  /\ search[t].pc = "grant"
  /\ IF status # HTTP_OK
     THEN /\ search' = [search EXCEPT ![t] = Fail(@, "grant", "RequestError", status)]
          /\ UNCHANGED <<bearer_token, expiry, granted>>
     ELSE /\ bearer_token' = tok
          /\ expiry' = GrantExpiry(now, n)
          /\ granted' = [at |-> now, life |-> n]
          /\ search' = [search EXCEPT ![t] = SendEntityGet(@, tok)]
  /\ UNCHANGED <<now, catalog, stream, playback>>

\* return: the call ends normally with a result of the given kind
Done(f, kind, items) == [f EXCEPT !.pc = "done", !.result = kind, !.items = items]

\* mutant: the new page goes in front of the items gathered so far
ExtendItems_Prepend(items, page) == page \o items

\* items.extend([t['track'] for t in data['items']]), line 486
ExtendItems(items, page) == items \o page

\* a null slot among a page's items
HasNull(page) == \E i \in 1..Len(page) : page[i] = None

\* _search, lines 445-493: the branches on data['type'] of a 200 response
EntityData(f) ==
  LET first == catalog[1]
      g == [f EXCEPT !.served = first]
  IN CASE f.url.entity = "track" ->
            \* SpotifyTrack(data)
            Done(f, "track", <<f.url.id>>)
       [] f.url.entity = "album" ->
            \* track['album'] = album_data cannot index a null slot
            IF HasNull(first) THEN Fail(g, "build", "TypeError", HTTP_OK)
            ELSE Done(g, IF f.iterator THEN "raw" ELSE "tracks", first)
       [] f.url.entity = "playlist" /\ f.iterator ->
            IF NextCursor(1) = None THEN Done(g, "raw", first)
            ELSE [g EXCEPT !.pc = "page", !.url.page = NextCursor(1),
                           !.items = first, !.gets = @ + 1]
       [] f.url.entity = "playlist" /\ ~f.iterator ->
            \* SpotifyTrack(t) is built from the item wrapper, not t['track']
            IF first = <<>> THEN Done(g, "tracks", <<>>)
            ELSE Fail(g, "build", "KeyError", HTTP_OK)
       [] OTHER ->
            \* no branch matches (an artist): the coroutine returns None
            Done(f, "none", <<>>)

\* _search resumes with the response of the entity GET, lines 439-443
EntityResponse(t, status) ==
  /\ search[t].pc = "get"
  \* the catalog API serves tracks, albums, playlists and artists only
  /\ status = HTTP_OK => search[t].url.entity \in UrlEntities
  /\ search' = [search EXCEPT ![t] =
       IF status # HTTP_OK THEN Fail(@, "get", "RequestError", status)
       ELSE EntityData(@)]
  /\ UNCHANGED <<now, bearer_token, expiry, catalog, granted, stream, playback>>

\* the body of an error response has no 'items' (KeyError) or is not JSON
PageErrors == {"KeyError", "ContentTypeError"}

\* mutant: the items of the page without a cursor are left out
PageData_DropLast(f, status, err) ==
  IF status # HTTP_OK THEN Fail(f, "page", err, status)
  ELSE LET page == catalog[f.url.page]
           g == [f EXCEPT !.served = @ \o page]
       IN IF NextCursor(f.url.page) = None
          THEN Done(g, "raw", f.items)
          ELSE [g EXCEPT !.items = ExtendItems(f.items, page),
                         !.url.page = NextCursor(f.url.page), !.gets = @ + 1]

\* the playlist walk, lines 482-490: the status of the response is never read
PageData(f, status, err) ==
  IF status # HTTP_OK THEN Fail(f, "page", err, status)
  ELSE LET page == catalog[f.url.page]
           g == [f EXCEPT !.served = @ \o page]
       IN IF NextCursor(f.url.page) = None
          THEN Done(g, "raw", ExtendItems(f.items, page))
          ELSE [g EXCEPT !.items = ExtendItems(f.items, page),
                         !.url.page = NextCursor(f.url.page), !.gets = @ + 1]

\* _search resumes with the response of a continuation GET
PageResponse(t, status, err) ==
  /\ search[t].pc = "page"
  /\ search' = [search EXCEPT ![t] = PageData(@, status, err)]
  /\ UNCHANGED <<now, bearer_token, expiry, catalog, granted, stream, playback>>

\* the caller of SpotifyTrack.search takes the result or the exception
SearchReturn(t) ==
  /\ search[t].pc \in {"done", "failed"}
  /\ search' = [search EXCEPT ![t] = IdleSearch]
  /\ UNCHANGED <<now, bearer_token, expiry, catalog, granted, stream, playback>>

Tick ==
  /\ now < MaxTime
  /\ now' = now + 1
  /\ UNCHANGED <<bearer_token, expiry, catalog, search, granted, stream, playback>>

\* no stream constructed yet
NoStream ==
  [pc |-> "none", query |-> NoQuery, type |-> "playlist", limit |-> NoLimit,
   first |-> TRUE, count |-> 0, queue |-> <<>>, out |-> "none",
   \* history: the tracks yielded so far
   yielded |-> <<>>]

(* ------------------------ SpotifyTrack.fulfill ------------------------- *)
NoPlayer == [autoplay |-> FALSE, has_client |-> FALSE, track_seeds |-> <<>>,
             auto_queue |-> <<>>]

IdleFulfill ==
  [pc |-> "idle", src |-> None, populate |-> FALSE, tracks |-> None,
   \* the exception the except clause is handling, and the value returned
   caught |-> "none", ret |-> None,
   \* history: the track list of the recommendations response
   recos |-> <<>>,
   err |-> "none", status |-> None, at |-> "none",
   \* history of the call, for the properties
   recGets |-> 0, seeds |-> <<>>, tokSent |-> None, fresh |-> FALSE]

FulfillFail(f, where, err, status) ==
  [f EXCEPT !.pc = "failed", !.at = where, !.err = err, !.status = status]

\* mutant: nothing is ever evicted
PushSeed_NoEvict(seeds, id) == Append(seeds, id)

\* mutant: the window is only trimmed once it is over its capacity
PushSeed_Late(seeds, id) ==
  Append(IF Len(seeds) > SeedCap THEN Tail(seeds) ELSE seeds, id)

\* fulfill, lines 360-363: pop(0) at capacity, then append
PushSeed(seeds, id) ==
  Append(IF Len(seeds) = SeedCap THEN Tail(seeds) ELSE seeds, id)

\* mutant: only populate decides, autoplay is not looked at
Populates_AnyPlayer(f) == f.populate

\* fulfill, line 351, negated: the call goes on to the recommendations
Populates(f) == player.autoplay /\ f.populate

\* fulfill is called: it awaits cls.search of the quoted ISRC, line 347
FulfillCall(c, src, populate) ==
  /\ fulfill[c].pc = "idle"
  /\ Len(populated) < MaxCalls
  /\ fulfill' = [fulfill EXCEPT ![c] =
       [IdleFulfill EXCEPT !.pc = "isrc", !.src = src, !.populate = populate]]
  /\ UNCHANGED <<now, bearer_token, expiry, catalog, search, granted, stream, decoded,
                 player, populated>>

\* mutant: the recommendations URL is built before the source id is appended
Resolved_UrlFirst(c, first) ==
  LET f == [fulfill[c] EXCEPT !.tracks = first, !.caught = "none"]
  IN IF ~Populates(f)
     THEN /\ fulfill' = [fulfill EXCEPT ![c] = [f EXCEPT !.pc = "done", !.ret = first]]
          /\ UNCHANGED <<player, populated>>
     ELSE IF ~player.has_client
     THEN /\ fulfill' = [fulfill EXCEPT ![c] =
               FulfillFail(f, "client", "RuntimeError", None)]
          /\ UNCHANGED <<player, populated>>
     ELSE /\ player' = [player EXCEPT !.track_seeds = PushSeed(@, f.src)]
          /\ populated' = Append(populated, f.src)
          /\ fulfill' = [fulfill EXCEPT ![c] =
               [f EXCEPT !.pc = "rec", !.recGets = @ + 1,
                         !.seeds = player.track_seeds,
                         !.tokSent = bearer_token,
                         !.fresh = bearer_token # None /\ now < expiry]]

\* fulfill, lines 351-366, once a search has returned tracks
Resolved(c, first) ==
  LET f == [fulfill[c] EXCEPT !.tracks = first, !.caught = "none"]
  IN IF ~Populates(f)
     THEN /\ fulfill' = [fulfill EXCEPT ![c] = [f EXCEPT !.pc = "done", !.ret = first]]
          /\ UNCHANGED <<player, populated>>
     ELSE IF ~player.has_client
     THEN /\ fulfill' = [fulfill EXCEPT ![c] =
               FulfillFail(f, "client", "RuntimeError", None)]
          /\ UNCHANGED <<player, populated>>
     ELSE /\ player' = [player EXCEPT !.track_seeds = PushSeed(@, f.src)]
          /\ populated' = Append(populated, f.src)
          /\ fulfill' = [fulfill EXCEPT ![c] =
               [f EXCEPT !.pc = "rec", !.recGets = @ + 1,
                         !.seeds = PushSeed(player.track_seeds, f.src),
                         !.tokSent = bearer_token,
                         !.fresh = bearer_token # None /\ now < expiry]]

\* what the host library's cls.search can end with
HostOutcomes == {"tracks", "NoTracksError", "error"}

\* mutant: the except clause takes every exception of the first search
HostSearchReturns_CatchAll(c, outcome, first) ==
  /\ fulfill[c].pc \in {"isrc", "fallback"}
  /\ CASE outcome = "tracks" -> Resolved(c, first)
       [] OTHER ->
            /\ fulfill' = [fulfill EXCEPT ![c] =
                 IF @.pc = "isrc"
                 THEN [@ EXCEPT !.pc = "fallback", !.caught = outcome]
                 ELSE FulfillFail(@, "search", outcome, None)]
            /\ UNCHANGED <<player, populated>>
  /\ UNCHANGED <<now, bearer_token, expiry, catalog, search, granted, stream, decoded>>

\* fulfill resumes from cls.search, lines 346-349
HostSearchReturns(c, outcome, first) ==
  /\ fulfill[c].pc \in {"isrc", "fallback"}
  /\ CASE outcome = "tracks" -> Resolved(c, first)
       [] outcome = "NoTracksError" ->
            /\ fulfill' = [fulfill EXCEPT ![c] =
                 IF @.pc = "isrc"
                 THEN [@ EXCEPT !.pc = "fallback", !.caught = "NoTracksError"]
                 ELSE FulfillFail(@, "search", "NoTracksError", None)]
            /\ UNCHANGED <<player, populated>>
       [] OTHER ->
            /\ fulfill' = [fulfill EXCEPT ![c] =
                 FulfillFail(@, "search", "HostError", None)]
            /\ UNCHANGED <<player, populated>>
  /\ UNCHANGED <<now, bearer_token, expiry, catalog, search, granted, stream, decoded>>

RECURSIVE EnqueueAll_SkipDuplicates(_, _)
\* mutant: a recommendation that is in the queue already is not put
EnqueueAll_SkipDuplicates(queue, recos) ==
  IF recos = <<>> THEN queue
  ELSE IF \E i \in DOMAIN queue : queue[i] = Head(recos)
  THEN EnqueueAll_SkipDuplicates(queue, Tail(recos))
  ELSE EnqueueAll_SkipDuplicates(Append(queue, Head(recos)), Tail(recos))

\* fulfill, lines 372-377: every recommendation is put, duplicate or not
EnqueueAll(queue, recos) == queue \o recos

\* fulfill resumes with the response of the recommendations GET, lines 366-379
RecResponse(c, status, recos) ==
  /\ fulfill[c].pc = "rec"
  /\ IF status # HTTP_OK
     THEN /\ fulfill' = [fulfill EXCEPT ![c] =
               FulfillFail(@, "rec", "RequestError", status)]
          /\ UNCHANGED player
     ELSE /\ fulfill' = [fulfill EXCEPT ![c] = [@ EXCEPT !.pc = "done", !.ret = fulfill[c].tracks, !.recos = recos]]
          /\ player' = [player EXCEPT !.auto_queue = EnqueueAll(@, recos)]
  /\ UNCHANGED <<now, bearer_token, expiry, catalog, search, granted, stream, decoded,
                 populated>>

\* the caller of fulfill takes the track or the exception
FulfillReturn(c) ==
  /\ fulfill[c].pc \in {"done", "failed"}
  /\ fulfill' = [fulfill EXCEPT ![c] = IdleFulfill]
  /\ UNCHANGED <<now, bearer_token, expiry, catalog, search, granted, stream, decoded,
                 player, populated>>

\* the bearer session of a new client, and of one that was granted token 1
\* at time 0 for ExpiryMargin + 1 seconds
Sessions ==
  {[token |-> None, expiry |-> 0, granted |-> [at |-> 0, life |-> 0]],
   [token |-> 1, expiry |-> GrantExpiry(0, ExpiryMargin + 1),
    granted |-> [at |-> 0, life |-> ExpiryMargin + 1]]}

InitFulfill ==
  /\ now = 0
  /\ \E b \in Sessions :
       bearer_token = b.token /\ expiry = b.expiry /\ granted = b.granted
  /\ catalog = <<PageOf(1, <<TRUE>>)>>
  /\ search = [t \in Tasks |-> IdleSearch]
  /\ stream = NoStream
  /\ player \in [autoplay : BOOLEAN, has_client : BOOLEAN,
                  track_seeds : {<<>>}, auto_queue : {<<>>}]
  /\ fulfill = [t \in Tasks |-> IdleFulfill]
  /\ populated = <<>>
  /\ decoded = NoDecode

\* one caller: the fulfill calls of a session are serialized
NextFulfill ==
  \/ \E src \in TrackIds, populate \in BOOLEAN : FulfillCall(1, src, populate)
  \/ \E o \in HostOutcomes, first \in TrackIds : HostSearchReturns(1, o, first)
  \/ \E s \in Statuses, recos \in SeqsUpTo(TrackIds, MaxQueue - Len(player.auto_queue)) :
        RecResponse(1, s, recos)
  \/ FulfillReturn(1)
  \/ Tick

SpecFulfill == InitFulfill /\ [][NextFulfill]_vars

\* a session on autoplay whose queue may hold a track already
InitEnqueue ==
  /\ now = 0
  /\ bearer_token = 1
  /\ expiry = GrantExpiry(0, ExpiryMargin + 1)
  /\ granted = [at |-> 0, life |-> ExpiryMargin + 1]
  /\ catalog = <<PageOf(1, <<TRUE>>)>>
  /\ search = [t \in Tasks |-> IdleSearch]
  /\ stream = NoStream
  /\ player \in [autoplay : {TRUE}, has_client : {TRUE},
                  track_seeds : {<<>>}, auto_queue : SeqsUpTo(TrackIds, 1)]
  /\ fulfill = [t \in Tasks |-> IdleFulfill]
  /\ populated = <<>>
  /\ decoded = NoDecode

\* one caller whose calls fill the queue up to MaxBacklog tracks
NextEnqueue ==
  \/ \E populate \in BOOLEAN : FulfillCall(1, 1, populate)
  \/ \E o \in HostOutcomes : HostSearchReturns(1, o, 1)
  \/ \E s \in {HTTP_OK, 404},
          recos \in SeqsUpTo(TrackIds, MaxBacklog - Len(player.auto_queue)) :
        RecResponse(1, s, recos)
  \/ FulfillReturn(1)

SpecEnqueue == InitEnqueue /\ [][NextEnqueue]_vars

\* a session on autoplay with a client and a valid token
InitConcurrent ==
  /\ now = 0
  /\ bearer_token = 1
  /\ expiry = GrantExpiry(0, ExpiryMargin + 1)
  /\ granted = [at |-> 0, life |-> ExpiryMargin + 1]
  /\ catalog = <<PageOf(1, <<TRUE>>)>>
  /\ search = [t \in Tasks |-> IdleSearch]
  /\ stream = NoStream
  /\ player = [autoplay |-> TRUE, has_client |-> TRUE,
               track_seeds |-> <<>>, auto_queue |-> <<>>]
  /\ fulfill = [t \in Tasks |-> IdleFulfill]
  /\ populated = <<>>
  /\ decoded = NoDecode

\* populating calls of several tasks in flight, interleaving at the awaits
\* of cls.search and of the recommendations GET
NextConcurrent ==
  \/ \E c \in Tasks, src \in TrackIds : FulfillCall(c, src, TRUE)
  \/ \E c \in Tasks, o \in {"tracks", "NoTracksError"} : HostSearchReturns(c, o, 1)
  \/ \E c \in Tasks, s \in {HTTP_OK, 404} : RecResponse(c, s, <<>>)
  \/ \E c \in Tasks : FulfillReturn(c)

SpecConcurrent == InitConcurrent /\ [][NextConcurrent]_vars

(* ----------------------- SpotifyAsyncIterator -------------------------- *)
\* the stream's _search frame
StreamTask == 1

\* mutant: the type is not checked
Iterator_Unchecked(q, l, ty) ==
  /\ stream.pc = "none"
  /\ stream' = [NoStream EXCEPT !.pc = "idle", !.query = q, !.type = ty, !.limit = l]
  /\ UNCHANGED <<now, bearer_token, expiry, catalog, search, granted, playback>>

\* SpotifyTrack.iterator, lines 316-322; no stream comes of a rejected call,
\* whose type is kept as history
Iterator(q, l, ty) ==
  /\ stream.pc = "none"
  /\ stream' =
       IF ty # "album" /\ ty # "playlist"
       THEN [NoStream EXCEPT !.out = "TypeError", !.type = ty]
       ELSE [NoStream EXCEPT !.pc = "idle", !.query = q, !.type = ty, !.limit = l]
  /\ UNCHANGED <<now, bearer_token, expiry, catalog, search, granted, playback>>

RECURSIVE Anext_StopAtNull(_, _, _)
\* mutant: a null slot ends the sequence
Anext_StopAtNull(queue, count, limit) ==
  IF limit # NoLimit /\ count = limit THEN [queue |-> queue, track |-> None]
  ELSE IF queue = <<>> THEN [queue |-> queue, track |-> None]
  ELSE [queue |-> Tail(queue), track |-> Head(queue)]

RECURSIVE Anext(_, _, _)
\* __anext__ once the queue is filled, lines 145-154: the queue left and the
\* payload dequeued, None for StopAsyncIteration
Anext(queue, count, limit) ==
  IF limit # NoLimit /\ count = limit THEN [queue |-> queue, track |-> None]
  ELSE IF queue = <<>> THEN [queue |-> queue, track |-> None]
  ELSE IF Head(queue) = None THEN Anext(Tail(queue), count, limit)
  ELSE [queue |-> Tail(queue), track |-> Head(queue)]

\* __anext__, lines 145-159, on the stream state st
Deliver(st) ==
  LET r == Anext(st.queue, st.count, st.limit)
  IN IF r.track = None
     THEN [st EXCEPT !.pc = "idle", !.queue = r.queue, !.out = "stop"]
     ELSE [st EXCEPT !.pc = "idle", !.queue = r.queue, !.out = "track",
                     !.count = @ + 1, !.yielded = Append(@, r.track)]

\* __anext__ is called: the first pull awaits fill_queue, lines 141-142
Pull ==
  /\ stream.pc = "idle"
  /\ IF stream.first
     THEN /\ stream' = [stream EXCEPT !.pc = "filling", !.out = "none"]
          /\ SearchCall(StreamTask, stream.query, stream.type, TRUE)
     ELSE /\ stream' = Deliver(stream)
          /\ UNCHANGED <<now, bearer_token, expiry, catalog, search, granted, playback>>

\* fill_queue resumes when _search has ended, lines 135-143
Filled ==
  /\ stream.pc = "filling"
  /\ search[StreamTask].pc \in {"done", "failed"}
  /\ LET f == search[StreamTask]
     IN stream' =
          IF f.pc = "failed"
          THEN \* the exception leaves __anext__: _first is still True
               [stream EXCEPT !.pc = "idle", !.out = f.err]
          ELSE IF f.result # "raw"
          THEN \* for track in tracks: a SpotifyTrack or None is not iterable
               [stream EXCEPT !.pc = "idle", !.out = "TypeError"]
          ELSE Deliver([stream EXCEPT !.queue = @ \o f.items, !.first = FALSE])
  /\ search' = [search EXCEPT ![StreamTask] = IdleSearch]
  /\ UNCHANGED <<now, bearer_token, expiry, catalog, granted, playback>>

Limits == {NoLimit} \cup 0..MaxLimit

InitStream ==
  /\ now = 0
  /\ bearer_token = None
  /\ expiry = 0
  /\ catalog \in Catalogs
  /\ search = [t \in Tasks |-> IdleSearch]
  /\ granted = [at |-> 0, life |-> 0]
  /\ stream = NoStream
  /\ player = NoPlayer
  /\ fulfill = [t \in Tasks |-> IdleFulfill]
  /\ populated = <<>>
  /\ decoded = NoDecode

\* the queries given to the stream: raw ids, and the URLs of entities that
\* are no collection
StreamQueries == Ids \cup {Uri(e, i) : e \in {"track", "artist"}, i \in Ids}

NextStream ==
  \/ \E q \in StreamQueries, l \in Limits, ty \in SearchTypes : Iterator(q, l, ty)
  \/ Pull
  \/ \E s \in Statuses : GrantResponse(StreamTask, s, 1, ExpiryMargin + 1)
  \/ \E s \in Statuses : EntityResponse(StreamTask, s)
  \/ \E s \in Statuses, e \in PageErrors : PageResponse(StreamTask, s, e)
  \/ Filled

SpecStream == InitStream /\ [][NextStream]_vars

(* ------------------- searches sharing one client ----------------------- *)
\* the raw-id queries: SpotifyTrack.search(query=<id>, type=...)
RawQueries == Ids

InitSearch ==
  /\ now = 0
  /\ bearer_token = None
  /\ expiry = 0
  /\ catalog \in OnePage
  /\ search = [t \in Tasks |-> IdleSearch]
  /\ granted = [at |-> 0, life |-> 0]
  /\ stream = NoStream
  /\ player = NoPlayer
  /\ fulfill = [t \in Tasks |-> IdleFulfill]
  /\ populated = <<>>
  /\ decoded = NoDecode

\* tasks interleave at the awaits
NextSearch ==
  \/ \E t \in Tasks, q \in RawQueries, ty \in {"track", "playlist"} : Search(t, q, ty)
  \/ \E t \in Tasks, s \in {HTTP_OK, 404}, tok \in Tokens,
          n \in {ExpiryMargin - 1, ExpiryMargin + 1} :
        GrantResponse(t, s, tok, n)
  \/ \E t \in Tasks, s \in {HTTP_OK, 404} : EntityResponse(t, s)
  \/ \E t \in Tasks : SearchReturn(t)
  \/ Tick

SpecSearch == InitSearch /\ [][NextSearch]_vars

\* the queries of the one caller: raw ids, URIs and links
SerialQueries == Queries \cup {Link(e, i) : e \in UrlEntities, i \in Ids}

\* one caller: a search starts when the previous one has returned
NextSerial ==
  \/ \E q \in SerialQueries, ty \in SearchTypes : Search(1, q, ty)
  \/ \E s \in Statuses, tok \in Tokens, n \in Lifetimes : GrantResponse(1, s, tok, n)
  \/ \E s \in Statuses : EntityResponse(1, s)
  \/ SearchReturn(1)
  \/ Tick

SpecSerial == InitSearch /\ [][NextSerial]_vars

(* ----------------------------- decode_url ------------------------------ *)
\* the strings given to decode_url are put together of seven parts, each
\* either one the pattern takes or one it does not
Schemes ==
  {<<>>, <<"h", "t", "t", "p", ":", "/", "/", "o", "p", "e", "n", ".">>, <<"h", "t", "t", "p", "s", ":", "/", "/", "o", "p", "e", "n", ".">>,
   <<"h", "t", "t", "p", "s", ":", "/", "/", "o", "p", "e", "n", "-">>, <<"f", "t", "p", ":", "/", "/", "o", "p", "e", "n", ".">>, <<"h", "t", "t", "p", "s", ":", "/", "/">>}
Hosts == {<<"s", "p", "o", "t", "i", "f", "y">>, <<"S", "p", "o", "t", "i", "f", "y">>}
Separators == {<<".", "c", "o", "m", "/">>, <<":">>, <<"/">>}
Names == {<<"a", "l", "b", "u", "m">>, <<"p", "l", "a", "y", "l", "i", "s", "t">>, <<"t", "r", "a", "c", "k">>, <<"a", "r", "t", "i", "s", "t">>, <<"s", "h", "o", "w">>}
Slashes == {<<"/">>, <<":">>, <<"-">>}
IdTexts == {<<>>, <<"a">>, <<"a", "7", "Z">>}
Tails == {<<>>, <<"?", "s", "i", "=", "b", "2">>, <<"?", "s", "i", "=", "b", "2", "&", "d", "l", "_", "b", "r", "a", "n", "c", "h", "=", "1">>, <<"-", "b">>}

UrlParts ==
  [scheme : Schemes, host : Hosts, sep : Separators, name : Names,
   slash : Slashes, id : IdTexts, tail : Tails]

Text(p) == p.scheme \o p.host \o p.sep \o p.name \o p.slash \o p.id \o p.tail

\* decode_url(url) is called and returns
Decode ==
  /\ ~decoded.done
  /\ decoded' = [decoded EXCEPT !.done = TRUE, !.out = decode_url(decoded.url)]
  /\ UNCHANGED <<now, bearer_token, expiry, catalog, search, granted, stream,
                 player, fulfill, populated>>

InitDecode ==
  /\ now = 0
  /\ bearer_token = None
  /\ expiry = 0
  /\ catalog = <<PageOf(1, <<TRUE>>)>>
  /\ search = [t \in Tasks |-> IdleSearch]
  /\ granted = [at |-> 0, life |-> 0]
  /\ stream = NoStream
  /\ player = NoPlayer
  /\ fulfill = [t \in Tasks |-> IdleFulfill]
  /\ populated = <<>>
  /\ \E p \in UrlParts :
       decoded = [parts |-> p, url |-> Text(p), done |-> FALSE, out |-> NoMatch]

NextDecode == Decode

SpecDecode == InitDecode /\ [][NextDecode]_vars

(* ------------------------------ claims --------------------------------- *)
\* C1: while the token is absent or expired, concurrent searches on one
\* client have at most one credential-grant POST outstanding: a search that
\* finds a grant in progress does not issue its own.
C1_SingleFlightGrant ==
  Cardinality({t \in Tasks : search[t].pc = "grant"}) <= 1

\* a search is called in this step
Called(t) == search[t].pc = "idle" /\ search'[t].pc # "idle"

\* C2: sequential searches on one client.  After a successful grant at time
\* t with lifetime N the cached expiry is t + N - 10; a search started
\* strictly before the expiry issues no grant and sends the cached token
\* with its entity GET; a search started at or after the expiry issues
\* exactly one grant, and issues it before its entity GET.
C2_TokenReusedUntilExpiry ==
  /\ [](bearer_token # None => expiry = granted.at + granted.life - 10)
  /\ [][(Called(1) /\ bearer_token # None) =>
          IF now < expiry
          THEN /\ search'[1].grants = 0
               /\ search'[1].gets = 1
               /\ search'[1].tokSent = bearer_token
          ELSE /\ search'[1].grants = 1
               /\ search'[1].gets = 0]_vars
  /\ [](search[1].grants <= 1)
  /\ [][search'[1].grants = search[1].grants \/ Called(1)
          \/ search'[1].pc = "idle"]_vars

\* a cached token, granted earlier, is reused by a search before its expiry
C2_Witness ==
  /\ search[1].pc = "get"
  /\ search[1].grants = 0
  /\ bearer_token # None
  /\ granted.at < now
  /\ now < expiry

\* C10: when the grant POST comes back with a status other than 200 the
\* search fails with a RequestError carrying that status, the cached token
\* and expiry are what they were when the search was called, and the search
\* has issued no entity GET.
C10_GrantFailureLeavesCache ==
  /\ [](search[1].pc = "failed" /\ search[1].at = "grant" =>
          /\ search[1].err = "RequestError"
          /\ search[1].status \in Statuses \ {HTTP_OK}
          /\ search[1].gets = 0)
  /\ [][(search'[1].pc = "grant"
           \/ (search[1].pc = "grant" /\ search'[1].pc = "failed")) =>
          bearer_token' = bearer_token /\ expiry' = expiry]_vars

RECURSIVE Flatten(_)
\* the pages' items in page order
Flatten(pages) == IF pages = <<>> THEN <<>> ELSE Head(pages) \o Flatten(Tail(pages))

NonNull(items) == SelectSeq(items, LAMBDA x : x # None)

IsPrefix(a, b) == Len(a) <= Len(b) /\ a = SubSeq(b, 1, Len(a))

Min(a, b) == IF a <= b THEN a ELSE b

\* the entity the stream's query and type address
StreamEntity == BaseUrl(stream.query, stream.type).entity

\* what the server holds for the stream: every page of a playlist in page
\* order; of an album, the page that comes with the album itself
Upstream == IF StreamEntity = "playlist" THEN Flatten(catalog) ELSE catalog[1]

\* C3: a stream without a limit yields the non-null payloads in page order
\* and item order, each once: what it has yielded is always a prefix of
\* that sequence, and all of it once the stream has terminated.
C3_StreamYieldsInPageOrder ==
  (stream.limit = NoLimit /\ ~stream.first) =>
    /\ IsPrefix(stream.yielded, NonNull(Upstream))
    /\ stream.out = "stop" => stream.yielded = NonNull(Upstream)

\* a two-page playlist with a null slot has been streamed to its end
C3_Witness ==
  /\ stream.limit = NoLimit
  /\ stream.out = "stop"
  /\ StreamEntity = "playlist"
  /\ Len(catalog) = 2
  /\ Len(catalog[1]) = 2
  /\ HasNull(catalog[1])
  /\ Len(stream.yielded) = 3

\* C4: with limit L >= 0 over m non-null payloads and any null slots, the
\* stream yields min(L, m) tracks before it terminates: a null slot neither
\* counts nor ends the sequence, and L yielded tracks end it.
C4_StreamYieldsMinLimit ==
  (stream.limit >= 0 /\ ~stream.first) =>
    /\ stream.count = Len(stream.yielded)
    /\ stream.count <= Min(stream.limit, Len(NonNull(Upstream)))
    /\ stream.out = "stop" =>
         stream.count = Min(stream.limit, Len(NonNull(Upstream)))

\* the limit ended a stream that skipped a null slot and has items left
C4_Witness ==
  /\ stream.limit = 2
  /\ stream.out = "stop"
  /\ ~stream.first
  /\ Len(NonNull(Upstream)) = 3
  /\ Head(Upstream) = None
  /\ stream.queue # <<>>

Is2xx(status) == status >= 200 /\ status < 300

\* C9: a GET answered with a non-2xx status makes the operation fail with
\* RequestError: the entity GET, every continuation-page GET of a playlist
\* walk, and the recommendations GET.
C9_Non2xxIsRequestError ==
  \A t \in Tasks :
    /\ (search[t].pc = "failed" /\ search[t].at \in {"get", "page"}
          /\ ~Is2xx(search[t].status)) => search[t].err = "RequestError"
    /\ (fulfill[t].pc = "failed" /\ fulfill[t].at = "rec"
          /\ ~Is2xx(fulfill[t].status)) => fulfill[t].err = "RequestError"

\* the last n entries of a sequence, all of it when it is shorter
LastN(seq, n) == SubSeq(seq, IF Len(seq) > n THEN Len(seq) - n + 1 ELSE 1, Len(seq))

\* C5: with serialized fulfill calls, the seed window holds at most 5 ids
\* and is the last min(5, n) source ids of the n populating calls so far, in
\* call order.
C5_SeedWindowIsLastFive ==
  /\ Len(player.track_seeds) <= 5
  /\ player.track_seeds = LastN(populated, 5)

\* a sixth populating call has evicted the first id, which differs from it
C5_Witness ==
  /\ Len(populated) = 6
  /\ populated[1] # populated[6]
  /\ populated[1] # populated[2]
  /\ Len(player.track_seeds) = 5

\* the call of task c reaches line 354 in this step
Populating(c) ==
  fulfill[c].pc \in {"isrc", "fallback"} /\ fulfill'[c].pc = "rec"

\* C6: a fulfill call with populate=true on a session with autoplay on and a
\* client bound, once its track is resolved, appends its source id and only
\* that to the seed window, evicting the oldest at capacity, and issues one
\* recommendations GET whose seeds are the window after the append; the
\* call issues no second GET and no other step changes the window.
C6_OneSeedOneRecommendationGet ==
  /\ [][Populating(1) <=>
          (/\ fulfill[1].pc \in {"isrc", "fallback"}
           /\ fulfill'[1].tracks # None
           /\ fulfill[1].populate /\ player.autoplay /\ player.has_client)]_vars
  /\ [][Populating(1) =>
          /\ player'.track_seeds =
               Append(IF Len(player.track_seeds) = 5
                      THEN Tail(player.track_seeds) ELSE player.track_seeds,
                      fulfill[1].src)
          /\ fulfill'[1].seeds = player'.track_seeds
          /\ fulfill'[1].recGets = 1]_vars
  /\ [][Populating(1) \/ player'.track_seeds = player.track_seeds]_vars
  /\ [](fulfill[1].recGets <= 1)
  /\ [](fulfill[1].pc = "done" /\ fulfill[1].populate /\ player.autoplay
          => fulfill[1].recGets = 1)

\* a populating call on a full window has its recommendations GET in flight
C6_Witness ==
  /\ fulfill[1].pc = "rec"
  /\ Len(populated) = 6
  /\ fulfill[1].seeds = player.track_seeds
  /\ Len(fulfill[1].seeds) = 5

\* the call in frame f does not populate on player p
Resolving(f, p) == f.pc # "idle" /\ (~f.populate \/ ~p.autoplay)

\* C7: a fulfill call with populate=false, or on a session with autoplay
\* off, issues no recommendations GET and no step of it changes the seed
\* window, the auto queue or the bearer session; it returns the resolved
\* track.
C7_NoPopulateNoEffect ==
  /\ [](Resolving(fulfill[1], player) =>
          /\ fulfill[1].recGets = 0
          /\ fulfill[1].pc = "done" => fulfill[1].tracks # None)
  /\ [][(Resolving(fulfill[1], player) \/ Resolving(fulfill'[1], player')) =>
          /\ player'.track_seeds = player.track_seeds
          /\ player'.auto_queue = player.auto_queue
          /\ bearer_token' = bearer_token
          /\ expiry' = expiry]_vars

\* a call with populate=true has returned its track on a session with
\* autoplay off and a client bound
C7_Witness ==
  /\ fulfill[1].pc = "done"
  /\ fulfill[1].populate
  /\ ~player.autoplay
  /\ player.has_client
  /\ fulfill[1].tracks # None

\* C8: when a populating fulfill call sends its recommendations GET, the
\* bearer session holds a token that was obtained and has not expired.
C8_ValidTokenBeforeRecommendations ==
  \A t \in Tasks :
    fulfill[t].recGets > 0 => fulfill[t].tokSent # None /\ fulfill[t].fresh

\* C11: constructing a stream with a type other than album or playlist
\* raises a usage error at once: no stream comes to exist, and the call
\* sends no grant and no catalog request and leaves the bearer session alone.
C11_IteratorRejectsOtherTypes ==
  /\ [](stream.pc # "none" => stream.type \in {"album", "playlist"})
  /\ [][(stream.pc = "none" /\ stream' # stream) =>
          \/ stream'.pc = "idle" /\ stream'.type \in {"album", "playlist"}
          \/ /\ stream'.type \in {"track", "unusable"}
             /\ stream'.pc = "none"
             /\ stream'.out = "TypeError"
             /\ search' = search
             /\ bearer_token' = bearer_token
             /\ expiry' = expiry]_vars

\* a stream of tracks was asked for and refused
C11_Witness ==
  /\ stream.pc = "none"
  /\ stream.out = "TypeError"
  /\ stream.type = "track"

\* what the parts of a string make of it: the pattern takes an optional
\* http(s)://open and one more character, spotify, .com/ or :, one of its
\* four names, / or :, and an id that is not empty
WellFormed(p) ==
  /\ p.scheme \in {<<>>, <<"h", "t", "t", "p", ":", "/", "/", "o", "p", "e", "n", ".">>, <<"h", "t", "t", "p", "s", ":", "/", "/", "o", "p", "e", "n", ".">>, <<"h", "t", "t", "p", "s", ":", "/", "/", "o", "p", "e", "n", "-">>}
  /\ p.host = <<"s", "p", "o", "t", "i", "f", "y">>
  /\ p.sep \in {<<".", "c", "o", "m", "/">>, <<":">>}
  /\ p.name \in {Spelling[n] : n \in DOMAIN Spelling}
  /\ p.slash \in {<<"/">>, <<":">>}
  /\ p.id # <<>>

\* the entity named by the parts p
NameOf(p) == CHOOSE n \in DOMAIN Spelling : Spelling[n] = p.name

\* C12: decode_url returns the type and the id of a string the catalog URL
\* pattern matches for track, album and playlist, the type unusable and the
\* id for artist, and none for a string the pattern does not match; what
\* follows the id, query parameters included, does not change the id.
C12_DecodeUrl ==
  decoded.done =>
    LET p == decoded.parts
    IN /\ WellFormed(p) /\ NameOf(p) \in {"track", "album", "playlist"}
            => decoded.out = [type |-> NameOf(p), id |-> p.id]
       /\ WellFormed(p) /\ NameOf(p) = "artist"
            => decoded.out = [type |-> "unusable", id |-> p.id]
       /\ ~WellFormed(p) => decoded.out = NoMatch
       /\ decoded.out.id = decode_url(Text([p EXCEPT !.tail = <<>>])).id

\* the link of an artist with both query parameters was decoded
C12_Witness ==
  /\ decoded.done
  /\ decoded.parts.scheme = <<"h", "t", "t", "p", "s", ":", "/", "/", "o", "p", "e", "n", ".">>
  /\ decoded.parts.tail = <<"?", "s", "i", "=", "b", "2", "&", "d", "l", "_", "b", "r", "a", "n", "c", "h", "=", "1">>
  /\ decoded.out = [type |-> "unusable", id |-> <<"a", "7", "Z">>]

\* C13: the entity GET of a search goes to the type and id of the identifier
\* its query parses to, whatever type the caller gave, and to the caller's
\* type with the whole query as the id when the query parses to none.
C13_EndpointFromIdentifier ==
  \A t \in Tasks :
    search[t].pc = "get" =>
      LET f == search[t]
          identifier == decode_url(f.query)
      IN IF identifier # NoMatch
         THEN f.url.entity = identifier.type /\ f.url.id = identifier.id
         ELSE f.url.entity = f.type /\ f.url.id = f.query

\* C14: a search whose 2xx response declares a type that is none of track,
\* album and playlist ends in a failure: it never completes with no result.
C14_UnexpectedShapeFails ==
  \A t \in Tasks : ~(search[t].pc = "done" /\ search[t].result = "none")

\* C15: fulfill searches by the quoted ISRC first; the search by name and
\* first artist is made exactly when the ISRC search ended with NoTracksError,
\* any other failure of it ending the call; and a call that completes returns
\* the first result of the search that succeeded, populating or not.
C15_IsrcThenFallback ==
  /\ [](\A c \in Tasks :
          fulfill[c].pc = "done" =>
            fulfill[c].tracks # None /\ fulfill[c].ret = fulfill[c].tracks)
  /\ [][\A c \in Tasks :
          LET f == fulfill[c]
              g == fulfill'[c]
          IN /\ (f.pc = "idle" /\ g.pc # "idle") => g.pc = "isrc"
             /\ (f.pc # "fallback" /\ g.pc = "fallback") =>
                  f.pc = "isrc" /\ g.caught = "NoTracksError"
             /\ (f.pc = "isrc" /\ g.pc \notin {"isrc", "fallback"}) =>
                  \/ g.pc = "failed" /\ g.at = "search" /\ g.err # "NoTracksError"
                  \/ g.tracks # None
             /\ (f.pc \in {"isrc", "fallback"} /\ g.pc = "done") =>
                  ~Populates(g) /\ g.tracks # None]_vars

\* a populating call has put recommendation 1 and returned its own track 2
C15_Witness ==
  /\ fulfill[1].pc = "done"
  /\ fulfill[1].recGets = 1
  /\ fulfill[1].ret = 2
  /\ player.auto_queue = <<1>>

\* C16: a populating fulfill puts every track of a successful
\* recommendations response at the end of the continuation queue, in the
\* order of the response, those the queue holds already included.
C16_EveryRecommendationEnqueued ==
  [][\A c \in Tasks :
       (fulfill[c].pc = "rec" /\ fulfill'[c].pc = "done") =>
         /\ player'.auto_queue = player.auto_queue \o fulfill'[c].recos
         /\ Len(player'.auto_queue) = Len(player.auto_queue) + Len(fulfill'[c].recos)]_vars

\* a response naming track 1 twice was put behind a track 1
C16_Witness ==
  /\ fulfill[1].pc = "done"
  /\ fulfill[1].recos = <<1, 1>>
  /\ player.auto_queue = <<1, 1, 1>>

\* C17: an iterator-mode search of a playlist of k pages, each with a cursor
\* but the last, ends after k GETs, the entity GET and k-1 continuation GETs,
\* each to the cursor that came with the page before, and returns the items
\* of the pages in page order; after one GET when the first page has no cursor.
C17_PlaylistWalk ==
  /\ [](LET f == search[StreamTask]
        IN (f.iterator /\ f.url.entity = "playlist") =>
             /\ f.gets <= Len(catalog)
             /\ f.pc = "page" =>
                  /\ f.url.page = f.gets
                  /\ f.items = Flatten(SubSeq(catalog, 1, f.gets - 1))
             /\ f.pc = "done" =>
                  /\ f.gets = Len(catalog)
                  /\ f.result = "raw"
                  /\ f.items = Flatten(catalog))
  /\ [][(search[StreamTask].pc = "page" /\ search'[StreamTask].pc = "page") =>
          \/ search'[StreamTask] = search[StreamTask]
          \/ /\ search'[StreamTask].url.page = NextCursor(search[StreamTask].url.page)
             /\ search'[StreamTask].url.page > search[StreamTask].url.page
             /\ search'[StreamTask].gets = search[StreamTask].gets + 1]_vars

\* the walk of a playlist of MaxPages pages, neither empty, has ended
C17_Witness ==
  /\ search[StreamTask].pc = "done"
  /\ search[StreamTask].iterator
  /\ search[StreamTask].url.entity = "playlist"
  /\ search[StreamTask].gets = MaxPages
  /\ \A p \in 1..MaxPages : catalog[p] # <<>>

\* C18: the stream fetches on its first pull only: no pull that follows
\* another starts the resolver's fetch again, however the first pull ended.
C18_FetchOnFirstPullOnly ==
  [][(stream.pc = "idle" /\ stream'.pc = "filling") => stream.out = "none"]_vars

\* C19: every entity GET sent for a stream goes to the album or the playlist
\* endpoint, whatever the stream's query is.
C19_StreamGetsCollections ==
  (stream.pc = "filling" /\ search[StreamTask].pc = "get") =>
    search[StreamTask].url.entity \in {"album", "playlist"}

\* C20: with populating fulfill calls of several tasks in flight, the seed
\* window never holds more than SeedCap ids, a call appends its source id
\* once, as it goes on to its recommendations GET, and the seeds of that GET
\* include the call's own source id.
C20_ConcurrentSeedWindow ==
  /\ [](/\ Len(player.track_seeds) <= SeedCap
        /\ \A c \in Tasks :
             /\ fulfill[c].recGets <= 1
             /\ fulfill[c].recGets = 1 =>
                  /\ Len(fulfill[c].seeds) <= SeedCap
                  /\ \E i \in DOMAIN fulfill[c].seeds :
                       fulfill[c].seeds[i] = fulfill[c].src)
  /\ [][\/ /\ player'.track_seeds = player.track_seeds
           /\ populated' = populated
           /\ \A c \in Tasks : fulfill'[c].recGets <= fulfill[c].recGets
        \/ \E c \in Tasks :
             /\ fulfill[c].recGets = 0 /\ fulfill'[c].recGets = 1
             /\ \A d \in Tasks \ {c} : fulfill'[d] = fulfill[d]
             /\ populated' = Append(populated, fulfill[c].src)
             /\ player'.track_seeds = LastN(populated', SeedCap)
             /\ fulfill'[c].seeds = player'.track_seeds]_vars

\* two calls for different tracks await their recommendations, the window
\* having been full before either appended
C20_Witness ==
  /\ fulfill[1].pc = "rec"
  /\ fulfill[2].pc = "rec"
  /\ fulfill[1].src # fulfill[2].src
  /\ Len(populated) = SeedCap + 2
  /\ fulfill[2].seeds # player.track_seeds

\* a refresh of an expired token has failed
C10_Witness ==
  /\ search[1].pc = "failed"
  /\ search[1].at = "grant"
  /\ bearer_token # None
  /\ now >= expiry

====
